---- MODULE Spec2Model ----
(***************************************************************************)
(* Cloud Asset Metadata API: the authentication module (auth.py) and the   *)
(* asset routes (main.py) as a state machine.                              *)
(*                                                                         *)
(* Strings that the code inspects character by character (usernames,      *)
(* passwords, asset owners) are sequences of one-character strings.        *)
(* Time is counted in ticks of 1/TicksPerSecond second, so that the        *)
(* whole-second truncation of the token's exp claim is visible.            *)
(***************************************************************************)
EXTENDS Integers, Sequences, FiniteSets, TLC

VARIABLES
    users_collection,   \* db["users"]: set of {username, password} documents
    assets_collection,  \* db["assets"]: set of asset documents
    next_id,            \* the next ObjectId insert_one hands out
    now,                \* datetime.utcnow(), in ticks
    issued,             \* history: what /auth/token has issued, and when
    resp,               \* the last request and the response it got
    workers,            \* the register requests in flight (SpecRace)
    pw_hashed,          \* the password last hashed and its hash (SpecHash)
    pw_checked          \* the password last verified and the verdict (SpecHash)

vars == <<users_collection, assets_collection, next_id, now, issued, resp,
          workers, pw_hashed, pw_checked>>

-----------------------------------------------------------------------------
(* Bounds of the model *)

TicksPerSecond == 2      \* clock resolution below one second
MaxExtraSeconds == 2     \* how far past a token's expiry the clock runs
MaxLoginTick == 1        \* logins happen in the first ticks
MaxServiceTick == 1      \* the clock of the service specification
MaxSalt == 2             \* bcrypt salts 1..MaxSalt
MaxAssets == 2           \* asset documents ever inserted
MaxIssued == 1           \* tokens kept in the issuance history
MaxTail == 3             \* characters after the padding of a long password
PadSlack == 2            \* bytes the padding stays below the bcrypt limit

(* Program constants *)

BcryptMaxBytes == 72
SecondsPerMinute == 60
ACCESS_TOKEN_EXPIRE_MINUTES == 1
SECRET_KEY == "dummy_secret"
ALGORITHM == "HS256"

-----------------------------------------------------------------------------
(* Characters *)

NL == "\n"
E_ACUTE == "U+00E9"
E_DIAERESIS == "U+00EB"

Lower == {"a","b","c","d","e","f","g","h","i","j","k","l","m",
          "n","o","p","q","r","s","t","u","v","w","x","y","z"}
Upper == {"A","B","C","D","E","F","G","H","I","J","K","L","M",
          "N","O","P","Q","R","S","T","U","V","W","X","Y","Z"}
Digit == {"0","1","2","3","4","5","6","7","8","9"}
UsernameClass == Lower \cup Upper \cup Digit \cup {"_", ".", "@", "-"}
PasswordSymbols == {"@", "$", "!", "%", "*", "?", "&"}

\* str.encode("utf-8"), one character: its bytes, written in hex for the
\* two-byte characters and as the character itself for ASCII
Utf8Char(c) ==
    CASE c = E_ACUTE -> <<"C3", "A9">>
      [] c = E_DIAERESIS -> <<"C3", "AB">>
      [] OTHER -> <<c>>

RECURSIVE Utf8(_)
Utf8(s) == IF s = <<>> THEN <<>> ELSE Utf8Char(Head(s)) \o Utf8(Tail(s))

\* s[:n]
Take(s, n) == SubSeq(s, 1, IF Len(s) < n THEN Len(s) ELSE n)

Repeat(c, n) == [i \in 1..n |-> c]

-----------------------------------------------------------------------------
(* Responses *)

\* raise HTTPException(status_code, detail)
Http(status, detail) == [status |-> status, detail |-> detail, body |-> {}]
\* a returned value, sent with the route's success status
Ok(status, body) == [status |-> status, detail |-> "", body |-> {body}]
\* a validator that returned without raising
Passed == Http(0, "")

-----------------------------------------------------------------------------
(* auth.py: helper functions *)

\* re.match(r"^[A-Za-z0-9_.@-]+$", username): "$" also matches just before
\* a newline that ends the string
UsernamePatternMatches(username) ==
    LET n == Len(username)
        body == IF n > 0 /\ username[n] = NL
                THEN SubSeq(username, 1, n - 1) ELSE username
    IN  /\ Len(body) >= 1
        /\ \A i \in 1..Len(body) : body[i] \in UsernameClass

validate_username(username) ==
    IF ~UsernamePatternMatches(username)
    THEN Http(400, "Username can only include letters, numbers, and _ . @ - characters.")
    ELSE Passed

\* re.match(r"^(?=.*[a-z])(?=.*[A-Z])(?=.*\d)(?=.*[@$!%*?&]).{8,}$", password):
\* "." stops at a newline, "$" matches at the end or before a final newline
PasswordPatternMatches(password) ==
    LET n == Len(password)
        line == IF n > 0 /\ password[n] = NL
                THEN SubSeq(password, 1, n - 1) ELSE password
        has(class) == \E i \in 1..Len(line) : line[i] \in class
    IN  /\ \A i \in 1..Len(line) : line[i] # NL
        /\ has(Lower) /\ has(Upper) /\ has(Digit) /\ has(PasswordSymbols)
        /\ Len(line) >= 8

validate_password(password) ==
    IF ~PasswordPatternMatches(password)
    THEN Http(400, "Password must be at least 8 characters long, include one uppercase letter, one lowercase letter, one number, and one special character.")
    ELSE Passed

\* pwd_context.hash / pwd_context.verify (passlib bcrypt): a salted digest of
\* the first 72 bytes of the secret's UTF-8 encoding
pwd_context_hash(secret, salt) ==
    [salt |-> salt, digest |-> Take(Utf8(secret), BcryptMaxBytes)]

pwd_context_verify(secret, hash) ==
    pwd_context_hash(secret, hash.salt) = hash

\* Mutant: a truncation that keeps one character too few
get_password_hash_short(password, salt) ==
    LET truncated == IF Len(Utf8(password)) > BcryptMaxBytes
                     THEN Take(password, BcryptMaxBytes - 1) ELSE password
    IN  pwd_context_hash(truncated, salt)

get_password_hash(password, salt) ==
    LET truncated == IF Len(Utf8(password)) > BcryptMaxBytes
                     THEN Take(password, BcryptMaxBytes) ELSE password
    IN  pwd_context_hash(truncated, salt)

verify_password(plain_password, hashed_password) ==
    LET truncated == IF Len(Utf8(plain_password)) > BcryptMaxBytes
                     THEN Take(plain_password, BcryptMaxBytes) ELSE plain_password
    IN  pwd_context_verify(truncated, hashed_password)

-----------------------------------------------------------------------------
(* auth.py: the token codec (python-jose) *)

\* timedelta(minutes=m), in ticks
timedelta_minutes(m) == m * SecondsPerMinute * TicksPerSecond

\* timegm(dt.utctimetuple()): the whole seconds of a time
timegm(t) == t \div TicksPerSecond

\* the HMAC of the signing input under a key: equal exactly when key,
\* algorithm and payload are equal
Sign(key, algorithm, claims) == [key |-> key, alg |-> algorithm, claims |-> claims]

\* jwt.encode: a datetime exp claim becomes whole seconds since the epoch
jwt_encode(claims, key, algorithm) ==
    LET payload == IF "exp" \in DOMAIN claims
                   THEN [claims EXCEPT !["exp"] = timegm(@)] ELSE claims
    IN  [wellformed |-> TRUE, alg |-> algorithm, claims |-> payload,
         sig |-> Sign(key, algorithm, payload)]

\* jwt.decode: JWTError on a malformed token, an algorithm that is not
\* allowed, a signature mismatch, or exp < the current whole second
jwt_decode(token, key, algorithms) ==
    IF \/ ~token.wellformed
       \/ token.alg \notin algorithms
       \/ token.sig # Sign(key, token.alg, token.claims)
    THEN [ok |-> FALSE, error |-> "JWTError", payload |-> token.claims]
    ELSE IF "exp" \in DOMAIN token.claims /\ token.claims["exp"] < timegm(now)
    THEN [ok |-> FALSE, error |-> "ExpiredSignatureError", payload |-> token.claims]
    ELSE [ok |-> TRUE, error |-> "", payload |-> token.claims]

\* expires_delta or timedelta(minutes=ACCESS_TOKEN_EXPIRE_MINUTES): a zero
\* timedelta is falsy
create_access_token(data, expires_delta) ==
    LET delta == IF expires_delta # 0 THEN expires_delta
                 ELSE timedelta_minutes(ACCESS_TOKEN_EXPIRE_MINUTES)
        expire == now + delta
        to_encode == ("exp" :> expire) @@ data
    IN  jwt_encode(to_encode, SECRET_KEY, ALGORITHM)

\* Mutant: a decode that does not verify exp
get_current_user_without_expiry(credentials) ==
    IF \/ ~credentials.wellformed
       \/ credentials.alg # ALGORITHM
       \/ credentials.sig # Sign(SECRET_KEY, credentials.alg, credentials.claims)
    THEN Http(401, "Invalid or expired token")
    ELSE IF "sub" \notin DOMAIN credentials.claims
    THEN Http(401, "Invalid authentication token")
    ELSE Ok(200, [username |-> credentials.claims["sub"]])

\* Mutant: a resolve that answers an invalid signature with 403
get_current_user_forbidden(credentials) ==
    LET decoded == jwt_decode(credentials, SECRET_KEY, {ALGORITHM})
    IN  IF decoded.error = "JWTError"
        THEN Http(403, "Invalid or expired token")
        ELSE IF ~decoded.ok
        THEN Http(401, "Invalid or expired token")
        ELSE IF "sub" \notin DOMAIN decoded.payload
        THEN Http(401, "Invalid authentication token")
        ELSE Ok(200, [username |-> decoded.payload["sub"]])

get_current_user(credentials) ==
    LET decoded == jwt_decode(credentials, SECRET_KEY, {ALGORITHM})
    IN  IF ~decoded.ok
        THEN Http(401, "Invalid or expired token")
        ELSE IF "sub" \notin DOMAIN decoded.payload
        THEN Http(401, "Invalid authentication token")
        ELSE Ok(200, [username |-> decoded.payload["sub"]])

-----------------------------------------------------------------------------
(* auth.py: the credential store and the routes *)

find_one(collection, username) == {u \in collection : u.username = username}

\* Mutant: a users collection without the unique index
NoUniqueIndex(collection, doc) == FALSE

\* the unique index on username: insert_one raises DuplicateKeyError
DuplicateKey(collection, doc) == find_one(collection, doc.username) # {}

\* the response of POST /auth/register
register_user(form_username, form_password, salt) ==
    IF validate_username(form_username) # Passed
    THEN validate_username(form_username)
    ELSE IF validate_password(form_password) # Passed
    THEN validate_password(form_password)
    ELSE LET hashed_pw == get_password_hash(form_password, salt)
             doc == [username |-> form_username, password |-> hashed_pw]
         IN  IF DuplicateKey(users_collection, doc)
             THEN Http(409, "Username already exists")
             ELSE Ok(201, [message |-> "registered", username |-> form_username])

\* Mutant: a login that tells an unknown username from a wrong password
login_reveals_unknown_user(form_username, form_password) ==
    IF validate_username(form_username) # Passed
    THEN validate_username(form_username)
    ELSE LET user == find_one(users_collection, form_username)
         IN  IF user = {}
             THEN Http(404, "User not found")
             ELSE IF ~verify_password(form_password, (CHOOSE u \in user : TRUE).password)
             THEN Http(401, "Invalid username or password")
             ELSE Ok(200, [access_token |->
                               create_access_token([sub |-> form_username],
                                   timedelta_minutes(ACCESS_TOKEN_EXPIRE_MINUTES)),
                           token_type |-> "bearer"])

\* Mutant: a login that looks the user up and never verifies the password
login_without_verify(form_username, form_password) ==
    IF validate_username(form_username) # Passed
    THEN validate_username(form_username)
    ELSE IF find_one(users_collection, form_username) = {}
    THEN Http(401, "Invalid username or password")
    ELSE Ok(200, [access_token |->
                      create_access_token([sub |-> form_username],
                          timedelta_minutes(ACCESS_TOKEN_EXPIRE_MINUTES)),
                  token_type |-> "bearer"])

\* the response of POST /auth/token
login_for_access_token(form_username, form_password) ==
    IF validate_username(form_username) # Passed
    THEN validate_username(form_username)
    ELSE LET user == find_one(users_collection, form_username)
         IN  IF \/ user = {}
                \/ ~verify_password(form_password, (CHOOSE u \in user : TRUE).password)
             THEN Http(401, "Invalid username or password")
             ELSE Ok(200, [access_token |->
                               create_access_token([sub |-> form_username],
                                   timedelta_minutes(ACCESS_TOKEN_EXPIRE_MINUTES)),
                           token_type |-> "bearer"])
-----------------------------------------------------------------------------
(* main.py: the asset routes *)

\* AssetCreate: every field is a string of min_length 1 and a max_length
AssetCreateValid(asset) ==
    /\ Len(asset.name) >= 1 /\ Len(asset.name) <= 200
    /\ Len(asset.owner) >= 1 /\ Len(asset.owner) <= 100
    /\ Len(asset.type) >= 1 /\ Len(asset.type) <= 50
    /\ Len(asset.region) >= 1 /\ Len(asset.region) <= 50

\* convert_objectid: the document with "_id" replaced by "id"
convert_objectid(doc) ==
    [id |-> doc._id, name |-> doc.name, owner |-> doc.owner,
     type |-> doc.type, region |-> doc.region]

\* the document insert_one stores for asset.model_dump()
asset_document(asset) ==
    [_id |-> next_id, name |-> asset.name, owner |-> asset.owner,
     type |-> asset.type, region |-> asset.region]

\* the response of POST /assets
create_asset(asset) ==
    IF ~AssetCreateValid(asset)
    THEN Http(422, "Unprocessable Entity")
    ELSE Ok(201, convert_objectid(asset_document(asset)))

\* the response of GET /assets
list_assets ==
    [status |-> 200, detail |-> "",
     body |-> {convert_objectid(doc) : doc \in assets_collection}]

\* assets_collection.find_one({"_id": ObjectId(id)})
find_asset(oid) == {doc \in assets_collection : doc._id = oid}

\* HTTPException(404, f"Asset with id '{id}' not found"): the id of the
\* request is part of the message
NotFound(id) ==
    [status |-> 404, detail |-> "Asset with id '{id}' not found", body |-> {[id |-> id.oid]}]

\* the response of GET /assets/{id}
get_asset(id) ==
    IF ~id.valid
    THEN Http(400, "Invalid asset ID format")
    ELSE IF find_asset(id.oid) = {}
    THEN NotFound(id)
    ELSE Ok(200, convert_objectid(CHOOSE doc \in find_asset(id.oid) : TRUE))

\* the response of DELETE /assets/{id}
delete_asset(id) ==
    IF ~id.valid
    THEN Http(400, "Invalid asset ID format")
    ELSE IF find_asset(id.oid) = {}
    THEN NotFound(id)
    ELSE Ok(200, [message |-> "deleted", id |-> id.oid])

-----------------------------------------------------------------------------
(* Requests *)

Alice == <<"a", "l", "i", "c", "e">>
Bob == <<"b", "o", "b">>
AlSpaceIce == <<"a", "l", " ", "i", "c", "e">>
AliceNewline == Alice \o <<NL>>
FormUsernames == {Alice, Bob, AlSpaceIce, AliceNewline}

GoodPassword == <<"P", "a", "s", "s", "w", "0", "r", "d", "!">>
OtherPassword == <<"S", "e", "c", "r", "3", "t", "!", "2", "3">>
WeakPassword == <<"p", "a", "s", "s", "w", "o", "r", "d">>
RegisterPasswords == {GoodPassword, WeakPassword}
LoginPasswords == {GoodPassword, OtherPassword, WeakPassword}

Salts == 1..MaxSalt

\* a string that is no JWT at all
MalformedToken ==
    [wellformed |-> FALSE, alg |-> "", claims |-> [raw |-> "garbage"],
     sig |-> Sign("", "", [raw |-> "garbage"])]

\* a token for subject s signed with a key that is not SECRET_KEY
ForgedToken(s) ==
    jwt_encode([sub |-> s, exp |-> timedelta_minutes(ACCESS_TOKEN_EXPIRE_MINUTES)],
               "attacker_key", ALGORITHM)

\* a token of this service with the subject rewritten and the signature kept
TamperedToken(t, s) == [t EXCEPT !.claims["sub"] = s]

\* a token with SECRET_KEY's signature that carries no sub claim
SubjectlessToken(expire) == jwt_encode([exp |-> expire], SECRET_KEY, ALGORITHM)

IssuedTokens == {i.token : i \in issued}

\* what a client can put in the Authorization header: nothing, or a token
Credentials ==
    {{}} \cup {{t} : t \in IssuedTokens \cup {MalformedToken, ForgedToken(Alice)}}

AssetBodies ==
    {[name |-> "web", owner |-> o, type |-> "EC2", region |-> "us-east-1"] :
        o \in {Alice, Bob, <<>>}}

PathIds == {[valid |-> TRUE, oid |-> k] : k \in 1..(MaxAssets + 1)}
              \cup {[valid |-> FALSE, oid |-> 0]}

-----------------------------------------------------------------------------
(* The service: one action per request *)

NoResponse == [route |-> "", req |-> <<>>, res |-> Passed]

Register(u, p, salt) ==
    LET res == register_user(u, p, salt)
    IN  /\ users_collection' =
              IF res.status = 201
              THEN users_collection \cup
                       {[username |-> u, password |-> get_password_hash(p, salt)]}
              ELSE users_collection
        /\ resp' = [route |-> "register", req |-> [username |-> u, password |-> p],
                    res |-> res]
        /\ UNCHANGED <<assets_collection, next_id, now, issued, workers,
                       pw_hashed, pw_checked>>

Login(u, p) ==
    LET res == login_for_access_token(u, p)
    IN  /\ now <= MaxLoginTick
        /\ issued' =
              IF res.status = 200
              THEN issued \cup {[token |-> t.access_token, sub |-> u, at |-> now] :
                                   t \in res.body}
              ELSE issued
        /\ Cardinality(issued') <= MaxIssued
        /\ resp' = [route |-> "token", req |-> [username |-> u, password |-> p],
                    res |-> res]
        /\ UNCHANGED <<users_collection, assets_collection, next_id, now, workers,
                       pw_hashed, pw_checked>>

Tick(limit) ==
    /\ now < limit
    /\ now' = now + 1
    /\ UNCHANGED <<users_collection, assets_collection, next_id, issued, resp,
                   workers, pw_hashed, pw_checked>>

CreateAsset(credentials, asset) ==
    LET res == create_asset(asset)
    IN  /\ next_id <= MaxAssets
        /\ assets_collection' =
              IF res.status = 201
              THEN assets_collection \cup {asset_document(asset)}
              ELSE assets_collection
        /\ next_id' = IF res.status = 201 THEN next_id + 1 ELSE next_id
        /\ resp' = [route |-> "create",
                    req |-> [credentials |-> credentials, asset |-> asset],
                    res |-> res]
        /\ UNCHANGED <<users_collection, now, issued, workers, pw_hashed, pw_checked>>

ListAssets(credentials) ==
    /\ resp' = [route |-> "list", req |-> [credentials |-> credentials],
                res |-> list_assets]
    /\ UNCHANGED <<users_collection, assets_collection, next_id, now, issued,
                   workers, pw_hashed, pw_checked>>

GetAsset(credentials, id) ==
    /\ resp' = [route |-> "get", req |-> [credentials |-> credentials, id |-> id],
                res |-> get_asset(id)]
    /\ UNCHANGED <<users_collection, assets_collection, next_id, now, issued,
                   workers, pw_hashed, pw_checked>>

DeleteAsset(credentials, id) ==
    LET res == delete_asset(id)
    IN  /\ assets_collection' =
              IF res.status = 200
              THEN assets_collection \ find_asset(id.oid)
              ELSE assets_collection
        /\ resp' = [route |-> "delete",
                    req |-> [credentials |-> credentials, id |-> id],
                    res |-> res]
        /\ UNCHANGED <<users_collection, next_id, now, issued, workers,
                       pw_hashed, pw_checked>>

\* Depends(get_current_user) on the token of an Authorization header
Resolve(token) ==
    /\ resp' = [route |-> "resolve", req |-> [credentials |-> {token}],
                res |-> get_current_user(token)]
    /\ UNCHANGED <<users_collection, assets_collection, next_id, now, issued,
                   workers, pw_hashed, pw_checked>>

Idle == /\ workers = <<>>
        /\ pw_hashed = {}
        /\ pw_checked = {}

Init ==
    /\ users_collection = {}
    /\ assets_collection = {}
    /\ next_id = 1
    /\ now = 0
    /\ issued = {}
    /\ resp = NoResponse
    /\ Idle

Next ==
    \/ \E u \in FormUsernames, p \in RegisterPasswords, salt \in Salts :
           Register(u, p, salt)
    \/ \E u \in FormUsernames, p \in LoginPasswords : Login(u, p)
    \/ Tick(MaxServiceTick)

Spec == Init /\ [][Next]_vars

\* The asset routes, for a service where alice and bob have registered and
\* logged in
InitAssets ==
    /\ now = 0
    /\ users_collection =
           {[username |-> u, password |-> get_password_hash(GoodPassword, 1)] :
               u \in {Alice, Bob}}
    /\ issued =
           {[token |-> create_access_token([sub |-> u],
                           timedelta_minutes(ACCESS_TOKEN_EXPIRE_MINUTES)),
             sub |-> u, at |-> 0] : u \in {Alice, Bob}}
    /\ assets_collection = {}
    /\ next_id = 1
    /\ resp = NoResponse
    /\ Idle

NextAssets ==
    \/ \E c \in Credentials, a \in AssetBodies : CreateAsset(c, a)
    \/ \E c \in Credentials : ListAssets(c)
    \/ \E c \in Credentials, id \in PathIds : GetAsset(c, id)
    \/ \E c \in Credentials, id \in PathIds : DeleteAsset(c, id)

SpecAssets == InitAssets /\ [][NextAssets]_vars
-----------------------------------------------------------------------------
(* Claims about the asset routes (SpecAssets) *)

\* the identity get_current_user resolves from an Authorization header
ResolvedIdentity(credentials) ==
    {r.username : r \in UNION {get_current_user(t).body : t \in credentials}}

\* C1: an asset owned by v is invisible to every other user u: a list made
\* with u's token does not contain it, and a get or delete of its id with
\* u's token is answered like a nonexistent id and leaves it stored.
C1_OwnerIsolation ==
    [][\A doc \in assets_collection :
         \A u \in ResolvedIdentity(resp'.req.credentials) :
            doc.owner # u =>
              /\ resp'.route = "list" =>
                    convert_objectid(doc) \notin resp'.res.body
              /\ (/\ resp'.route \in {"get", "delete"}
                  /\ resp'.req.id = [valid |-> TRUE, oid |-> doc._id]) =>
                    /\ resp'.res = NotFound(resp'.req.id)
                    /\ doc \in assets_collection']_vars

\* C2: an asset request without a valid bearer token is answered 401, gets
\* no asset data and changes no asset.
C2_AssetRoutesRequireToken ==
    [][ResolvedIdentity(resp'.req.credentials) = {} =>
          /\ resp'.res.status = 401
          /\ resp'.res.body = {}
          /\ assets_collection' = assets_collection]_vars

\* C6: an asset created with a token of subject s is stored with owner s,
\* whatever owner the body names.
C6_OwnerIsTokenSubject ==
    [][\A s \in ResolvedIdentity(resp'.req.credentials) :
          resp'.route = "create" =>
             \A doc \in assets_collection' \ assets_collection : doc.owner = s]_vars

-----------------------------------------------------------------------------
(* Claims about register and login (Spec) *)

GenericLoginFailure == Http(401, "Invalid username or password")

OnlyAllowedCharacters(username) ==
    /\ Len(username) >= 1
    /\ \A i \in 1..Len(username) : username[i] \in UsernameClass

ComplexPassword(password) ==
    /\ Len(password) >= 8
    /\ \E i \in 1..Len(password) : password[i] \in Lower
    /\ \E i \in 1..Len(password) : password[i] \in Upper
    /\ \E i \in 1..Len(password) : password[i] \in Digit
    /\ \E i \in 1..Len(password) : password[i] \in PasswordSymbols

\* C9: register writes a record only for a username made of letters, digits
\* and _ . @ - and a password of 8 or more characters with a lowercase
\* letter, an uppercase letter, a digit and a symbol; any other request is
\* answered 400 and leaves the store unchanged.
C9_RegisterValidates ==
    [][(/\ resp'.route = "register"
        /\ ~(/\ OnlyAllowedCharacters(resp'.req.username)
             /\ ComplexPassword(resp'.req.password))) =>
          /\ resp'.res.status = 400
          /\ users_collection' = users_collection]_vars

\* C10: login issues a token only for a subject that has a credential
\* record at that moment, and only after the supplied password verified
\* against the hash of that record.
C10_IssuedAfterVerification ==
    [][\A i \in issued' \ issued :
          /\ resp'.route = "token"
          /\ i.token = (CHOOSE b \in resp'.res.body : TRUE).access_token
          /\ \E u \in users_collection :
                /\ u.username = i.token.claims["sub"]
                /\ verify_password(resp'.req.password, u.password)]_vars

\* tokens have been issued, each for a registered user
C10_Witness ==
    /\ Cardinality(issued) >= MaxIssued
    /\ resp.route = "token"
    /\ resp.res.status = 200
    /\ \A i \in issued : find_one(users_collection, i.token.claims["sub"]) # {}
-----------------------------------------------------------------------------
(* The token lifecycle: logins, the clock, and get_current_user on whatever
   token a client presents *)

TokenLifetime == timedelta_minutes(ACCESS_TOKEN_EXPIRE_MINUTES)

MaxNow ==
    MaxLoginTick + TokenLifetime + MaxExtraSeconds * TicksPerSecond

\* the tokens a client can present that do not verify under SECRET_KEY
BadSignatureTokens ==
    {ForgedToken(Alice)} \cup
    UNION {{TamperedToken(t, s) : s \in {Alice, Bob} \ {t.claims["sub"]}} :
               t \in IssuedTokens}

PresentableTokens ==
    IssuedTokens \cup BadSignatureTokens \cup
    {MalformedToken, SubjectlessToken(MaxNow + TokenLifetime),
     SubjectlessToken(0 - TokenLifetime)}

InitToken ==
    /\ now = 0
    /\ users_collection =
           {[username |-> u, password |-> get_password_hash(GoodPassword, 1)] :
               u \in {Alice, Bob}}
    /\ issued = {}
    /\ assets_collection = {}
    /\ next_id = 1
    /\ resp = NoResponse
    /\ Idle

NextToken ==
    \/ \E u \in {Alice, Bob} : Login(u, GoodPassword)
    \/ Tick(MaxNow)
    \/ \E t \in PresentableTokens : Resolve(t)

SpecToken == InitToken /\ [][NextToken]_vars

\* C5 as stated: a token issued at t with lifetime T resolves to its
\* subject at every now <= t + T and is rejected at every now > t + T; a
\* token with a bad signature is rejected at every time.
C5_ValidExactlyUntilExpiry ==
    /\ \A i \in issued :
          IF now <= i.at + TokenLifetime
          THEN get_current_user(i.token) = Ok(200, [username |-> i.sub])
          ELSE get_current_user(i.token).status = 401
    /\ \A t \in BadSignatureTokens : get_current_user(t).status = 401

\* C5 amended: the token carries the whole second of t + T as exp; it
\* resolves to its subject while the whole second of now is <= exp, which
\* includes every now <= t + T, and is rejected from the next whole second
\* on; a token with a bad signature is rejected at every time.
C5_ValidUntilExpirySecond ==
    /\ \A i \in issued :
          IF timegm(now) <= timegm(i.at + TokenLifetime)
          THEN get_current_user(i.token) = Ok(200, [username |-> i.sub])
          ELSE get_current_user(i.token).status = 401
    /\ \A t \in BadSignatureTokens : get_current_user(t).status = 401

\* a token that login issued was presented after its expiry and rejected
C5_Witness ==
    /\ resp.route = "resolve"
    /\ resp.res.status = 401
    /\ \E i \in issued :
          /\ resp.req.credentials = {i.token}
          /\ now > i.at + TokenLifetime

-----------------------------------------------------------------------------
(* Two register requests in flight, each at its own line of register_user *)

Workers == {1, 2}

RaceUsernames == {Alice, Bob, AlSpaceIce}

InitRace ==
    /\ users_collection = {}
    /\ workers \in [Workers ->
                      {[pc |-> "validate_username", username |-> u, password |-> p,
                        hashed_pw |-> {}, res |-> Passed] :
                          u \in RaceUsernames, p \in RegisterPasswords}]
    /\ assets_collection = {}
    /\ next_id = 1
    /\ now = 0
    /\ issued = {}
    /\ resp = NoResponse
    /\ pw_hashed = {}
    /\ pw_checked = {}

RaceUnchanged == UNCHANGED <<assets_collection, next_id, now, issued, resp,
                             pw_hashed, pw_checked>>

\* username = validate_username(form_data.username)
RaceValidateUsername(w) ==
    LET res == validate_username(workers[w].username)
    IN  /\ workers[w].pc = "validate_username"
        /\ workers' = [workers EXCEPT ![w].pc = IF res = Passed THEN "validate_password"
                                               ELSE "done",
                                      ![w].res = res]
        /\ UNCHANGED users_collection
        /\ RaceUnchanged

\* password = validate_password(form_data.password)
RaceValidatePassword(w) ==
    LET res == validate_password(workers[w].password)
    IN  /\ workers[w].pc = "validate_password"
        /\ workers' = [workers EXCEPT ![w].pc = IF res = Passed THEN "hash" ELSE "done",
                                      ![w].res = res]
        /\ UNCHANGED users_collection
        /\ RaceUnchanged

\* hashed_pw = get_password_hash(password)
RaceHash(w, salt) ==
    /\ workers[w].pc = "hash"
    /\ workers' = [workers EXCEPT
                      ![w].pc = "insert",
                      ![w].hashed_pw = {get_password_hash(workers[w].password, salt)}]
    /\ UNCHANGED users_collection
    /\ RaceUnchanged

\* users_collection.insert_one(...), DuplicateKeyError turned into 409
RaceInsert(w) ==
    LET doc == [username |-> workers[w].username,
                password |-> CHOOSE h \in workers[w].hashed_pw : TRUE]
    IN  /\ workers[w].pc = "insert"
        /\ IF DuplicateKey(users_collection, doc)
           THEN /\ UNCHANGED users_collection
                /\ workers' = [workers EXCEPT
                                  ![w].pc = "done",
                                  ![w].res = Http(409, "Username already exists")]
           ELSE /\ users_collection' = users_collection \cup {doc}
                /\ workers' = [workers EXCEPT
                                  ![w].pc = "done",
                                  ![w].res = Ok(201, [message |-> "registered",
                                                      username |-> doc.username])]
        /\ RaceUnchanged

NextRace ==
    \E w \in Workers :
        \/ RaceValidateUsername(w)
        \/ RaceValidatePassword(w)
        \/ \E salt \in Salts : RaceHash(w, salt)
        \/ RaceInsert(w)

SpecRace == InitRace /\ [][NextRace]_vars

\* both requests name the same username of valid format and carry valid
\* passwords
SameValidRegistration ==
    /\ workers[1].username = workers[2].username
    /\ \A w \in Workers :
          /\ OnlyAllowedCharacters(workers[w].username)
          /\ ComplexPassword(workers[w].password)

RaceDone == \A w \in Workers : workers[w].pc = "done"

\* C3: of two concurrent register requests for the same valid username with
\* valid passwords, in any interleaving, exactly one is answered 201 and the
\* other 409, and the store ends with exactly one record for the username.
C3_ExactlyOneRegistration ==
    (RaceDone /\ SameValidRegistration) =>
        /\ \E w \in Workers :
              /\ workers[w].res.status = 201
              /\ \A v \in Workers \ {w} : workers[v].res.status = 409
        /\ Cardinality(find_one(users_collection, workers[1].username)) = 1

\* both requests ran to the end for one username, with different passwords;
\* one got 201, the other 409
C3_Witness ==
    /\ RaceDone
    /\ SameValidRegistration
    /\ workers[1].res.status = 409
    /\ workers[2].res.status = 201

-----------------------------------------------------------------------------
(* Password hashing on passwords around the 72-byte limit *)

PadBytes == BcryptMaxBytes - PadSlack

\* the paddings: one-byte characters, and two-byte characters
Pads == {Repeat("a", PadBytes), Repeat(E_ACUTE, PadBytes \div 2)}

Tails == UNION {[1..n -> {"a", E_ACUTE, E_DIAERESIS}] : n \in 0..MaxTail}

LongPasswords == {pad \o tail : pad \in Pads, tail \in Tails}

InitHash ==
    /\ pw_hashed = {}
    /\ pw_checked = {}
    /\ workers = <<>>
    /\ users_collection = {}
    /\ assets_collection = {}
    /\ next_id = 1
    /\ now = 0
    /\ issued = {}
    /\ resp = NoResponse

HashUnchanged == UNCHANGED <<users_collection, assets_collection, next_id, now,
                             issued, resp, workers>>

\* one password is hashed and one is verified against the hash
HashPassword(password, salt) ==
    /\ pw_hashed = {}
    /\ pw_hashed' = {[password |-> password,
                      hash |-> get_password_hash(password, salt)]}
    /\ pw_checked' = {}
    /\ HashUnchanged

VerifyPassword(password) ==
    /\ pw_hashed # {}
    /\ pw_checked = {}
    /\ pw_checked' = {[password |-> password,
                       verdict |-> verify_password(password, h.hash)] :
                          h \in pw_hashed}
    /\ UNCHANGED pw_hashed
    /\ HashUnchanged

NextHash ==
    \/ \E p \in LongPasswords, salt \in Salts : HashPassword(p, salt)
    \/ \E p \in LongPasswords : VerifyPassword(p)

SpecHash == InitHash /\ [][NextHash]_vars

\* C8: two passwords of more than 72 bytes that agree on their first 72
\* bytes verify against each other's hash; two passwords whose first 72
\* bytes differ do not.
C8_TruncationAt72Bytes ==
    \A h \in pw_hashed, c \in pw_checked :
        LET hashed == Utf8(h.password)
            checked == Utf8(c.password)
        IN  /\ (/\ Len(hashed) > BcryptMaxBytes
                /\ Len(checked) > BcryptMaxBytes
                /\ Take(hashed, BcryptMaxBytes) = Take(checked, BcryptMaxBytes)) =>
                   c.verdict = TRUE
            /\ Take(hashed, BcryptMaxBytes) # Take(checked, BcryptMaxBytes) =>
                   c.verdict = FALSE

\* two different passwords of more than 72 characters verified as equal
C8_Witness ==
    \E h \in pw_hashed, c \in pw_checked :
        /\ h.password # c.password
        /\ Len(h.password) > BcryptMaxBytes
        /\ Len(c.password) > BcryptMaxBytes
        /\ c.verdict = TRUE

====
